---- MODULE Spec2Model ----
(***************************************************************************)
(* Model of the System-Remaster helper scripts:                            *)
(*   src/clean_waypoints_proper.py      line scanner that drops the        *)
(*                                      waypoint-item blocks of index.html *)
(*   src/magn_dgr_cal.py                course / distance calculator and   *)
(*                                      its interactive input collector    *)
(*   src/validation_tools/flight_time_cal.py   wind triangle, flight time  *)
(***************************************************************************)
EXTENDS Integers, Sequences, FiniteSets, TLC

VARIABLES
    \* clean_waypoints_proper.py
    lines, idx, new_lines, in_waypoint_item, waypoint_item_depth, html, cpc,
    \* magn_dgr_cal.py: main
    lat1, lon1, lat2, lon2, true_course, magnetic_course, distance, nav_out, npc,
    \* validation_tools/flight_time_cal.py: calculate_flight_time
    wind_dir, wind_speed, mag_course, distance_nm, ft_true_course, wind_dir_rad,
    true_course_rad, wca_rad, gs_branch, ground_speed, flight_time, ft_out, fpc,
    \* magn_dgr_cal.py: get_coordinate_input
    coord_str, coord_value, in_out, ipc

cleanVars == <<lines, idx, new_lines, in_waypoint_item, waypoint_item_depth, html, cpc>>

navVars == <<lat1, lon1, lat2, lon2, true_course, magnetic_course, distance, nav_out, npc>>

flightVars ==
    <<wind_dir, wind_speed, mag_course, distance_nm, ft_true_course, wind_dir_rad,
      true_course_rad, wca_rad, gs_branch, ground_speed, flight_time, ft_out, fpc>>

inputVars == <<coord_str, coord_value, in_out, ipc>>

vars == <<cleanVars, navVars, flightVars, inputVars>>

notNav == <<cleanVars, flightVars, inputVars>>

notClean == <<navVars, flightVars, inputVars>>

notFlight == <<cleanVars, navVars, inputVars>>

notInput == <<cleanVars, navVars, flightVars>>

\* a local name that is not bound yet
None == <<>>

(***************************************************************************)
(* Python floats.                                                          *)
(*                                                                         *)
(* A float is modelled as a binary floating-point number <<m, e>> of value *)
(* m * 2^e with a MantBits-bit mantissa (2^(MantBits-1) <= |m| < 2^MantBits*)
(* or <<0, 0>> for zero) and an unbounded exponent.  Every arithmetic      *)
(* operation rounds its exact result to the nearest such number, ties to   *)
(* even, as IEEE-754 double arithmetic does with 53 bits.  The mantissa is *)
(* shortened to 17 bits so that every intermediate fits 32-bit integers;   *)
(* 17 = 53 modulo 4, so a quotient n/60 (binary period 4) is rounded in    *)
(* the same direction as with 53 bits.  Signed zeros are not distinguished *)
(* (the code's results do not depend on them).                             *)
(***************************************************************************)
MantBits == 17

FracBits == 26    \* fraction bits of the fixed-point angles inside sin/cos/atan

Abs(n) == IF n < 0 THEN -n ELSE n

Sgn(n) == IF n > 0 THEN 1 ELSE IF n < 0 THEN -1 ELSE 0

\* int.bit_length() of 0 <= n < 2^31
BitLen(n) ==
    IF n >= 2^30 THEN 31
    ELSE CHOOSE k \in 0..30 : n < 2^k /\ (k = 0 \/ n >= 2^(k - 1))

Zero == <<0, 0>>

\* the rounded mantissa q of a number of sign sg: a carry out of the mantissa
\* moves the exponent up
NormCarry(sg, q, e) ==
    IF q = 2^MantBits THEN <<sg * 2^(MantBits - 1), e + 1>> ELSE <<sg * q, e>>

\* the low s > 0 bits of n rounded away, to nearest, ties to even
NormRound(n, e, sticky, s) ==
    LET q    == Abs(n) \div 2^s
        r    == Abs(n) % 2^s
        half == 2^(s - 1)
    IN NormCarry(Sgn(n),
                 IF r > half \/ (r = half /\ (sticky \/ q % 2 = 1)) THEN q + 1 ELSE q,
                 e + s)

\* n of bit length L brought to MantBits bits
NormLen(n, e, sticky, L) ==
    IF L <= MantBits
    THEN <<n * 2^(MantBits - L), e - (MantBits - L)>>
    ELSE NormRound(n, e, sticky, L - MantBits)

\* n * 2^e rounded to a float; sticky: the exact value lies strictly above |n| * 2^e
NormS(n, e, sticky) ==
    IF n = 0 THEN Zero ELSE NormLen(n, e, sticky, BitLen(Abs(n)))

Norm(n, e) == NormS(n, e, FALSE)

FromInt(n) == Norm(n, 0)

FNeg(a) == <<-a[1], a[2]>>

FAbs(a) == <<Abs(a[1]), a[2]>>

FSign(a) == Sgn(a[1])

\* the exact product, formed in two halves of b's mantissa (9 low bits, the rest)
FMul(a, b) ==
    IF a[1] = 0 \/ b[1] = 0 THEN Zero
    ELSE LET bh == Abs(b[1]) \div 512
             bl == Abs(b[1]) % 512
             lo == Abs(a[1]) * bl
             hi == Abs(a[1]) * bh + lo \div 512
         IN NormS(Sgn(a[1]) * Sgn(b[1]) * hi, a[2] + b[2] + 9, lo % 512 # 0)

RECURSIVE RatBits(_, _, _)
\* long division, eight bits a step: extends the quotient q (remainder r, divisor
\* d < 2^23) to at least MantBits + 2 bits; <<quotient, bits added, remainder>>
RatBits(q, r, d) ==
    IF q >= 2^(MantBits + 1) THEN <<q, 0, r>>
    ELSE LET t == RatBits(256 * q + (256 * r) \div d, (256 * r) % d, d)
         IN <<t[1], t[2] + 8, t[3]>>

\* a / b for b # 0 (the callers raise ZeroDivisionError first)
FDiv(a, b) ==
    IF a[1] = 0 THEN Zero
    ELSE LET t == RatBits(Abs(a[1]) \div Abs(b[1]), Abs(a[1]) % Abs(b[1]), Abs(b[1]))
         IN NormS(Sgn(a[1]) * Sgn(b[1]) * t[1], a[2] - b[2] - t[2], t[3] # 0)

\* a + b: exact when the exponents are at most 3 apart; otherwise the smaller operand
\* is shifted to 3 guard bits below the larger one, the bits shifted out kept as sticky
FAdd(a, b) ==
    IF a[1] = 0 THEN b
    ELSE IF b[1] = 0 THEN a
    ELSE LET hi == IF a[2] >= b[2] THEN a ELSE b
             lo == IF a[2] >= b[2] THEN b ELSE a
             d  == hi[2] - lo[2]
         IN IF d > MantBits + 2 THEN hi
            ELSE IF d <= 3 THEN Norm(hi[1] * 2^d + lo[1], lo[2])
            ELSE LET l  == Abs(lo[1]) \div 2^(d - 3)
                     st == Abs(lo[1]) % 2^(d - 3) # 0
                     H  == Abs(hi[1]) * 8
                     n  == IF Sgn(hi[1]) = Sgn(lo[1]) THEN H + l
                           ELSE H - l - (IF st THEN 1 ELSE 0)
                 IN NormS(Sgn(hi[1]) * n, hi[2] - 3, st)

FSub(a, b) == FAdd(a, FNeg(b))

FLt(a, b) == FSign(FSub(a, b)) < 0

FLe(a, b) == FSign(FSub(a, b)) <= 0

\* the float nearest to n / d (n, d integers, 0 < d < 2^23): float("n/d as a decimal")
Rat(n, d) ==
    IF n = 0 THEN Zero
    ELSE LET t == RatBits(Abs(n) \div d, Abs(n) % d, d)
         IN NormS(Sgn(n) * t[1], -t[2], t[3] # 0)

\* round(num / den) to the nearest integer, ties to even (num >= 0, den > 0)
RoundHalfEven(num, den) ==
    LET q == num \div den
        r == num % den
    IN IF 2 * r > den \/ (2 * r = den /\ q % 2 = 1) THEN q + 1 ELSE q

\* round(a, 1): the float nearest to the decimal k/10 nearest to a (ties to even)
round1(a) ==
    LET k == IF a[2] >= 0 THEN 10 * a[1] * 2^a[2]
             ELSE IF -a[2] > 30 THEN 0
             ELSE Sgn(a[1]) * RoundHalfEven(10 * Abs(a[1]), 2^(-a[2]))
    IN Rat(k, 10)

\* math.ceil(a): an integer
math_ceil(a) ==
    IF a[2] >= 0 THEN a[1] * 2^a[2]
    ELSE IF -a[2] > 30 THEN (IF a[1] > 0 THEN 1 ELSE 0)
    ELSE -((-a[1]) \div 2^(-a[2]))

\* a % n for a float a >= 0 and an integer n > 0 (exact, as Python's float %)
FMod(a, n) ==
    IF FLt(a, FromInt(n)) THEN a
    ELSE IF a[2] >= 0 THEN FromInt((a[1] * 2^a[2]) % n)
    ELSE Norm(a[1] % (n * 2^(-a[2])), a[2])

RECURSIVE SqrtDigits(_, _, _, _)
\* square root of the 40-bit radicand M * 2^22 (M < 2^18), one hexadecimal digit of the
\* root for every eight bits of the radicand; returns <<root, remainder>>
SqrtDigits(M, root, rem, g) ==
    IF g = 5 THEN <<root, rem>>
    ELSE LET grp == IF g = 0 THEN M \div 1024
                    ELSE IF g = 1 THEN (M \div 4) % 256
                    ELSE IF g = 2 THEN (M % 4) * 64
                    ELSE 0
             r   == 256 * rem + grp
             d   == CHOOSE x \in 0..15 :
                        /\ (32 * root + x) * x <= r
                        /\ (x = 15 \/ (32 * root + x + 1) * (x + 1) > r)
         IN SqrtDigits(M, 16 * root + d, r - (32 * root + d) * d, g + 1)

\* math.sqrt(a) for a >= 0 (the callers raise ValueError first)
math_sqrt(a) ==
    IF a[1] = 0 THEN Zero
    ELSE LET odd == a[2] % 2 # 0
             M   == IF odd THEN 2 * a[1] ELSE a[1]
             E   == IF odd THEN a[2] - 1 ELSE a[2]
             t   == SqrtDigits(M, 0, 0, 0)
         IN NormS(t[1], E \div 2 - 11, t[2] # 0)

One == <<2^(MantBits - 1), -(MantBits - 1)>>

\* math.pi and pi/2: the floats nearest to pi and pi/2
math_pi == <<102944, -15>>

HalfPi == <<102944, -16>>

\* pi/2 in fixed point, FracBits fraction bits
HalfPiFx == 105414357

\* sin(k/64) and cos(k/64), k = 0..51, and atan(k/16), k = 0..16, in fixed point
SinTab ==
    << 0, 1048533, 2096811, 3144576, 4191574, 5237548, 6282244, 7325406, 8366780,
       9406111, 10443145, 11477630, 12509313, 13537943, 14563266, 15585035,
       16602999, 17616909, 18626518, 19631580, 20631849, 21627082, 22617034,
       23601465, 24580133, 25552801, 26519231, 27479186, 28432432, 29378737,
       30317870, 31249601, 32173703, 33089950, 33998119, 34897988, 35789337,
       36671948, 37545606, 38410098, 39265213, 40110742, 40946479, 41772218,
       42587760, 43392905, 44187456, 44971219, 45744003, 46505619, 47255882,
       47994608 >>

CosTab ==
    << 67108864, 67100672, 67076099, 67035149, 66977835, 66904168, 66814168,
       66707856, 66585258, 66446405, 66291329, 66120070, 65932668, 65729170,
       65509624, 65274086, 65022612, 64755263, 64472106, 64173208, 63858644,
       63528489, 63182825, 62821736, 62445309, 62053638, 61646817, 61224946,
       60788127, 60336468, 59870079, 59389073, 58893569, 58383686, 57859550,
       57321288, 56769032, 56202917, 55623080, 55029664, 54422814, 53802676,
       53169404, 52523151, 51864075, 51192338, 50508102, 49811536, 49102809,
       48382094, 47649567, 46905408 >>

AtanTab ==
    << 0, 4188855, 8345322, 12438490, 16440240, 20326259, 24076692, 27676396,
       31114864, 34385875, 37486965, 40418820, 43184628, 45789489, 48239865,
       50543127, 52707179 >>

\* a float as a fixed-point number (truncated)
ToFix(a) ==
    LET s == a[2] + FracBits
    IN IF s >= 0 THEN a[1] * 2^s
       ELSE IF -s > 30 THEN 0
       ELSE Sgn(a[1]) * (Abs(a[1]) \div 2^(-s))

\* <<sin a, cos a>> for a >= 0 (a below 4 pi): a = k * pi/2 + r with |r| <= pi/4,
\* |r| = j/64 + b with j from the table and b small, sin b and cos b by their series,
\* and the addition formulas.  The steps hand their intermediate values on as
\* arguments, last step first.  Here the quadrant: sa = sin |r|, cf = cos |r|.
SinCosTurn(k, r, sa, cf) ==
    LET sf == IF r < 0 THEN FNeg(sa) ELSE sa
        q  == k % 4
    IN IF q = 0 THEN <<sf, cf>>
       ELSE IF q = 1 THEN <<cf, FNeg(sf)>>
       ELSE IF q = 2 THEN <<FNeg(sf), FNeg(cf)>>
       ELSE <<FNeg(cf), sf>>

\* the addition formulas: S, C the table's sine and cosine, sb = sin b, cb = cos b
SinCosAdd(k, r, S, C, sb, cb) ==
    SinCosTurn(k, r, FAdd(FMul(S, cb), FMul(C, sb)), FSub(FMul(C, cb), FMul(S, sb)))

\* the series of sin b and cos b, bb = b * b
SinCosSeries(k, r, S, C, bf, bb) ==
    SinCosAdd(k, r, S, C,
              FMul(bf, FSub(One, FMul(FDiv(bb, FromInt(6)),
                                      FSub(One, FDiv(bb, FromInt(20)))))),
              FSub(One, FMul(FDiv(bb, FromInt(2)), FSub(One, FDiv(bb, FromInt(12))))))

\* |r| = j/64 + b
SinCosTable(k, r, j, bf) ==
    SinCosSeries(k, r, Norm(SinTab[j + 1], -FracBits), Norm(CosTab[j + 1], -FracBits),
                 bf, FMul(bf, bf))

\* zf = k * pi/2 + r
SinCosReduced(a, k, r) ==
    LET j == IF Abs(r) < 3 * 2^19 THEN 0 ELSE (Abs(r) + 2^19) \div 2^20
    IN SinCosTable(k, r, j,
                   IF k = 0 /\ j = 0 THEN a ELSE Norm(Abs(r) - j * 2^20, -FracBits))

SinCosFix(a, zf) ==
    LET k == (zf + HalfPiFx \div 2) \div HalfPiFx
    IN SinCosReduced(a, k, zf - k * HalfPiFx)

SinCosPos(a) == SinCosFix(a, ToFix(a))

SinSigned(a, sc) == IF a[1] < 0 THEN FNeg(sc[1]) ELSE sc[1]

math_sin(a) == SinSigned(a, SinCosPos(FAbs(a)))

math_cos(a) == SinCosPos(FAbs(a))[2]

\* atan(s / l) in [0, pi/4] for floats 0 <= s <= l, l > 0: with q = s / l and c the
\* multiple of 1/16 nearest to q, atan q = atan c + atan((q - c) / (1 + q * c)).
\* Here the series of atan t, tt = t * t, added to the table's atan(k/16).
AtanSeries(k, t, tt) ==
    FAdd(Norm(AtanTab[k + 1], -FracBits),
         FMul(t, FSub(One, FMul(tt, FSub(FDiv(One, FromInt(3)), FDiv(tt, FromInt(5)))))))

AtanSmall(k, t) == AtanSeries(k, t, FMul(t, t))

AtanOffset(q, k, c) == AtanSmall(k, FDiv(FSub(q, c), FAdd(One, FMul(q, c))))

AtanTable(q, qf) ==
    LET k == IF qf < 3 * 2^21 THEN 0 ELSE (qf + 2^21) \div 2^22
    IN AtanOffset(q, k, Norm(k, -4))

AtanQuotient(q) == AtanTable(q, ToFix(q))

AtanRatio(s, l) == AtanQuotient(FDiv(s, l))

\* t0 = atan2(|y|, |x|), moved to the quadrant of (x, y)
Atan2Signed(y, x, t0) ==
    IF y[1] > 0 THEN (IF x[1] < 0 THEN FSub(math_pi, t0) ELSE t0)
    ELSE FNeg(IF x[1] < 0 THEN FSub(math_pi, t0) ELSE t0)

Atan2Abs(ay, ax) ==
    IF ax[1] = 0 THEN HalfPi
    ELSE IF FLe(ay, ax) THEN AtanRatio(ay, ax)
    ELSE FSub(HalfPi, AtanRatio(ax, ay))

math_atan2(y, x) ==
    IF y[1] = 0 THEN (IF x[1] >= 0 THEN Zero ELSE math_pi)
    ELSE Atan2Signed(y, x, Atan2Abs(FAbs(y), FAbs(x)))

\* math.asin raises ValueError ("math domain error") outside [-1, 1]
AsinDomain(v) == FLe(FAbs(v), One)

math_asin(v) == math_atan2(v, math_sqrt(FMul(FSub(One, v), FAdd(One, v))))

\* math.radians / math.degrees and the calculator's own conversion factors
DEG_TO_RAD == FDiv(math_pi, FromInt(180))

RAD_TO_DEG == FDiv(FromInt(180), math_pi)

math_radians(a) == FMul(a, DEG_TO_RAD)

math_degrees(a) == FMul(a, RAD_TO_DEG)

(***************************************************************************)
(* magn_dgr_cal.py: MagneticCourseCalculator                               *)
(***************************************************************************)
MAGNETIC_VARIATION == Rat(-41, 10)

EARTH_RADIUS_NM == Rat(344389849, 100000)

\* a plausible slip in the bearing formula: the two terms of x added, not subtracted
bearing_x_sign_slip(phi1, phi2, delta_lambda) ==
    FAdd(FMul(math_cos(phi1), math_sin(phi2)),
         FMul(FMul(math_sin(phi1), math_cos(phi2)), math_cos(delta_lambda)))

\* x = cos(phi1) * sin(phi2) - sin(phi1) * cos(phi2) * cos(delta_lambda)
bearing_x(phi1, phi2, delta_lambda) ==
    FSub(FMul(math_cos(phi1), math_sin(phi2)),
         FMul(FMul(math_sin(phi1), math_cos(phi2)), math_cos(delta_lambda)))

\* true_course = (bearing_deg + 360) % 360; return round(true_course, 1).
\* No operation of the try block can raise for finite arguments.
calculate_true_course(la1, lo1, la2, lo2) ==
    LET phi1         == FMul(la1, DEG_TO_RAD)
        phi2         == FMul(la2, DEG_TO_RAD)
        delta_lambda == FMul(FSub(lo2, lo1), DEG_TO_RAD)
        y            == FMul(math_sin(delta_lambda), math_cos(phi2))
        x            == bearing_x(phi1, phi2, delta_lambda)
        bearing_rad  == math_atan2(y, x)
        bearing_deg  == FMul(bearing_rad, RAD_TO_DEG)
        tc           == FMod(FAdd(bearing_deg, FromInt(360)), 360)
    IN round1(tc)

\* magnetic_course = true_course + MAGNETIC_VARIATION, normalised and rounded;
\* <<true_course, magnetic_course>>
apply_variation(tc) ==
    <<tc, round1(FMod(FAdd(FAdd(tc, MAGNETIC_VARIATION), FromInt(360)), 360))>>

\* returns <<true_course, magnetic_course>>
calculate_magnetic_course(la1, lo1, la2, lo2) ==
    apply_variation(calculate_true_course(la1, lo1, la2, lo2))

\* a plausible slip in the haversine term: cos(phi1) taken twice
haversine_a_phi1_twice(sp, phi1, phi2, sl) ==
    FAdd(FMul(sp, sp), FMul(FMul(FMul(math_cos(phi1), math_cos(phi1)), sl), sl))

\* a = sin(dphi/2) * sin(dphi/2) + cos(phi1) * cos(phi2) * sin(dlam/2) * sin(dlam/2)
haversine_a(sp, phi1, phi2, sl) ==
    FAdd(FMul(sp, sp), FMul(FMul(FMul(math_cos(phi1), math_cos(phi2)), sl), sl))

\* c = 2 * atan2(sqrt(a), sqrt(1 - a)); distance = EARTH_RADIUS_NM * c, rounded.
\* math.sqrt raises ValueError for a negative argument (the except branch);
\* nothing else in the try block can raise.
distance_from_a(a, one_minus_a) ==
    IF FSign(a) < 0 \/ FSign(one_minus_a) < 0
    THEN [value |-> Zero, error |-> TRUE]
    ELSE [value |-> round1(FMul(EARTH_RADIUS_NM,
                                FMul(FromInt(2),
                                     math_atan2(math_sqrt(a), math_sqrt(one_minus_a))))),
          error |-> FALSE]

distance_from_haversine(a) == distance_from_a(a, FSub(One, a))

\* Returns [value, error]: error is TRUE when the except branch ran (it prints
\* "Error calculating distance: ..." and returns 0).
\* Python's 0 and 0.0 are equal numbers: both are the value Zero here.
calculate_distance(la1, lo1, la2, lo2) ==
    LET phi1         == FMul(la1, DEG_TO_RAD)
        phi2         == FMul(la2, DEG_TO_RAD)
        delta_phi    == FMul(FSub(la2, la1), DEG_TO_RAD)
        delta_lambda == FMul(FSub(lo2, lo1), DEG_TO_RAD)
        sp           == math_sin(FDiv(delta_phi, FromInt(2)))
        sl           == math_sin(FDiv(delta_lambda, FromInt(2)))
    IN distance_from_haversine(haversine_a(sp, phi1, phi2, sl))

(***************************************************************************)
(* magn_dgr_cal.py: main.  The four coordinates are values the input       *)
(* collector accepts, typed with two decimals; a point is <<lat, lon>> in  *)
(* hundredths of a degree.                                                 *)
(***************************************************************************)
Points ==
    { <<0, 0>>, <<0, 4500>>, <<0, -4500>>, <<2520, -9000>>, <<-2520, 9000>>,
      <<8000, -10>>, <<4500, 4500>>, <<-4500, 0>>, <<3000, 0>>, <<1, 0>>,
      <<4500, 0>>, <<8000, 0>>, <<9000, 0>>, <<-9000, 0>>,
      <<2397, 12098>>, <<2415, 12067>> }

NavInit ==
    /\ npc = "input"
    /\ lat1 = None /\ lon1 = None /\ lat2 = None /\ lon2 = None
    /\ true_course = None /\ magnetic_course = None /\ distance = None
    /\ nav_out = <<>>

\* the four get_coordinate_input calls
GetCoordinates ==
    /\ npc = "input"
    /\ \E p \in Points, q \in Points :
         /\ lat1' = Rat(p[1], 100) /\ lon1' = Rat(p[2], 100)
         /\ lat2' = Rat(q[1], 100) /\ lon2' = Rat(q[2], 100)
    /\ npc' = "calc"
    /\ UNCHANGED <<true_course, magnetic_course, distance, nav_out>>
    /\ UNCHANGED notNav

\* calculate_magnetic_course, calculate_distance, and the results display
Calculate ==
    /\ npc = "calc"
    /\ \E cm \in {calculate_magnetic_course(lat1, lon1, lat2, lon2)},
          cd \in {calculate_distance(lat1, lon1, lat2, lon2)} :
          /\ true_course' = cm[1]
          /\ magnetic_course' = cm[2]
          /\ distance' = cd.value
          /\ nav_out' = (IF cd.error THEN <<"Error calculating distance">> ELSE <<>>)
                          \o <<"CALCULATION RESULTS">>
    /\ npc' = "results"
    /\ UNCHANGED <<lat1, lon1, lat2, lon2>>
    /\ UNCHANGED notNav

\* "Calculate another route? (y/n)": y calls main() again
AnotherRoute ==
    /\ npc = "results"
    /\ npc' = "input"
    /\ lat1' = None /\ lon1' = None /\ lat2' = None /\ lon2' = None
    /\ true_course' = None /\ magnetic_course' = None /\ distance' = None
    /\ nav_out' = <<>>
    /\ UNCHANGED notNav

Finish ==
    /\ npc = "results"
    /\ npc' = "end"
    /\ UNCHANGED <<lat1, lon1, lat2, lon2, true_course, magnetic_course, distance, nav_out>>
    /\ UNCHANGED notNav

NavNext == GetCoordinates \/ Calculate \/ AnotherRoute \/ Finish

CleanIdle ==
    /\ lines = <<>> /\ html = <<>> /\ idx = 1 /\ new_lines = <<>>
    /\ in_waypoint_item = FALSE /\ waypoint_item_depth = 0 /\ cpc = "idle"

FlightIdle ==
    /\ fpc = "idle" /\ gs_branch = "none" /\ ft_out = <<>>
    /\ wind_dir = None /\ wind_speed = None /\ mag_course = None /\ distance_nm = None
    /\ ft_true_course = None /\ wind_dir_rad = None /\ true_course_rad = None
    /\ wca_rad = None /\ ground_speed = None /\ flight_time = None

InputIdle == ipc = "idle" /\ coord_str = <<>> /\ coord_value = None /\ in_out = <<>>

NavStart == NavInit /\ CleanIdle /\ FlightIdle /\ InputIdle

SpecNav == NavStart /\ [][NavNext]_vars

InRange(c) == FSign(c) >= 0 /\ FLt(c, FromInt(360))

\* C1: the returned true and magnetic courses c satisfy 0 <= c < 360
C1_CoursesInRange ==
    npc \in {"results", "end"} => InRange(true_course) /\ InRange(magnetic_course)

Shown == npc \in {"results", "end"}

DistanceFailed == \E i \in 1..Len(nav_out) : nav_out[i] = "Error calculating distance"

\* C6: a failed distance computation hands main a value that differs from the value
\* of a legitimate zero distance (the distance from the starting point to itself)
C6_FailureDistinguishable ==
    Shown /\ DistanceFailed =>
        /\ ~calculate_distance(lat1, lon1, lat1, lon1).error
        /\ distance # calculate_distance(lat1, lon1, lat1, lon1).value

Tolerance == Rat(1, 1000000)

\* C8: calculate_distance(A, B) and calculate_distance(B, A) agree within 1e-6
C8_DistanceSymmetric ==
    Shown => \A back \in {calculate_distance(lat2, lon2, lat1, lon1)} :
                 FLe(FAbs(FSub(distance, back.value)), Tolerance)

C8_Witness ==
    /\ npc = "results" /\ ~DistanceFailed
    /\ lat1 # lat2 /\ lon1 # lon2 /\ FSign(distance) > 0

\* the two courses differ by 180 degrees modulo 360, within the one-decimal rounding
CourseTolerance == Rat(2, 10)

Opposite(c1, c2) ==
    FLe(FAbs(FSub(FAbs(FSub(c1, c2)), FromInt(180))), CourseTolerance)

DistinctPoints == lat1 # lat2 \/ lon1 # lon2

\* C9 as stated: for any two distinct points the courses A->B and B->A differ by 180
C9_ReverseCourseAnyPair ==
    Shown /\ DistinctPoints =>
        \A back \in {calculate_true_course(lat2, lon2, lat1, lon1)} :
            Opposite(true_course, back)

InLatitudeRange(la) == FLe(FAbs(la), FromInt(90))

\* coordinates at least 0.01 degree apart
Apart(u, v) == FLe(Rat(1, 100), FAbs(FSub(u, v)))

OnSameMeridian ==
    lon1 = lon2 /\ Apart(lat1, lat2) /\ InLatitudeRange(lat1) /\ InLatitudeRange(lat2)

BothOnEquator == lat1 = Zero /\ lat2 = Zero /\ Apart(lon1, lon2)

\* C9 amended: the courses A->B and B->A differ by 180 when the two points, at least
\* 0.01 degree apart, lie on one meridian (latitudes within [-90, 90]) or both on
\* the equator
C9_ReverseCourseMeridianEquator ==
    Shown /\ (OnSameMeridian \/ BothOnEquator) =>
        \A back \in {calculate_true_course(lat2, lon2, lat1, lon1)} :
            Opposite(true_course, back)

C9_Witness ==
    /\ npc = "results" /\ OnSameMeridian
    /\ true_course = FromInt(180)
    /\ calculate_true_course(lat2, lon2, lat1, lon1) = Zero

(***************************************************************************)
(* clean_waypoints_proper.py                                               *)
(*                                                                         *)
(* A line of index.html is a sequence of tokens:                           *)
(*   "WP"  = <div class="waypoint-item ...>   "DIV" = any other <div ...>  *)
(*   "END" = </div>                           "TXT" = anything else        *)
(***************************************************************************)
MaxLines == 4

LineKinds ==
    { <<"WP">>, <<"WP", "END">>, <<"WP", "DIV">>, <<"DIV">>, <<"END">>,
      <<"TXT">>, <<"DIV", "END">>, <<"END", "END">>, <<"TXT", "WP">> }

RECURSIVE CountTok(_, _)
\* line.count('<div'): both "WP" and "DIV" contain the substring '<div'
CountTok(line, toks) ==
    IF line = <<>> THEN 0
    ELSE (IF Head(line) \in toks THEN 1 ELSE 0) + CountTok(Tail(line), toks)

CountOpen(line) == CountTok(line, {"WP", "DIV"})

CountClose(line) == CountTok(line, {"END"})

HasWaypointClass(line) == CountTok(line, {"WP"}) > 0

RECURSIVE Flatten(_)
Flatten(ls) == IF ls = <<>> THEN <<>> ELSE Head(ls) \o Flatten(Tail(ls))

RECURSIVE Balanced(_, _)
\* the page is well-formed HTML: every </div> closes an open <div>, none is left open
Balanced(toks, depth) ==
    IF toks = <<>> THEN depth = 0
    ELSE IF Head(toks) \in {"WP", "DIV"} THEN Balanced(Tail(toks), depth + 1)
    ELSE IF Head(toks) = "END" THEN depth > 0 /\ Balanced(Tail(toks), depth - 1)
    ELSE Balanced(Tail(toks), depth)

Files ==
    { f \in UNION { [1..n -> LineKinds] : n \in 0..MaxLines } : Balanced(Flatten(f), 0) }

CleanInit ==
    /\ lines \in Files
    /\ html = lines
    /\ idx = 1
    /\ new_lines = <<>>
    /\ in_waypoint_item = FALSE
    /\ waypoint_item_depth = 0
    /\ cpc = "scan"

\* one iteration of `for i, line in enumerate(lines)`
ScanLine ==
    /\ cpc = "scan"
    /\ idx <= Len(lines)
    /\ LET line == lines[idx] IN
         IF HasWaypointClass(line)
         THEN /\ in_waypoint_item' = TRUE
              /\ waypoint_item_depth' = 1
              /\ UNCHANGED new_lines
         ELSE IF in_waypoint_item
         THEN LET d == waypoint_item_depth + CountOpen(line) - CountClose(line) IN
              /\ in_waypoint_item' = (d > 0)
              /\ waypoint_item_depth' = (IF d <= 0 THEN 0 ELSE d)
              /\ UNCHANGED new_lines
         ELSE /\ new_lines' = Append(new_lines, line)
              /\ UNCHANGED <<in_waypoint_item, waypoint_item_depth>>
    /\ idx' = idx + 1
    /\ UNCHANGED <<lines, html, cpc>>
    /\ UNCHANGED notClean

\* f.writelines(new_lines)
WriteBack ==
    /\ cpc = "scan"
    /\ idx > Len(lines)
    /\ html' = new_lines
    /\ cpc' = "done"
    /\ UNCHANGED <<lines, idx, new_lines, in_waypoint_item, waypoint_item_depth>>
    /\ UNCHANGED notClean

CleanNext == ScanLine \/ WriteBack

NavIdle ==
    /\ npc = "idle"
    /\ lat1 = None /\ lon1 = None /\ lat2 = None /\ lon2 = None
    /\ true_course = None /\ magnetic_course = None /\ distance = None
    /\ nav_out = <<>>

CleanStart == CleanInit /\ NavIdle /\ FlightIdle /\ InputIdle

SpecClean == CleanStart /\ [][CleanNext]_vars

RECURSIVE KeptLines(_, _)
\* The lines outside every waypoint-item div, the div's extent found by balanced
\* counting over the tags in document order (the opening line's own tags included).
KeptLines(ls, depth) ==
    IF ls = <<>> THEN <<>>
    ELSE LET line == Head(ls)
             RECURSIVE Walk(_, _, _)
             \* <<depth after the line, whether any part of the line is inside an item>>
             Walk(toks, d, hit) ==
                 IF toks = <<>> THEN <<d, hit>>
                 ELSE IF d = 0
                      THEN IF Head(toks) = "WP" THEN Walk(Tail(toks), 1, TRUE)
                           ELSE Walk(Tail(toks), 0, hit)
                      ELSE IF Head(toks) \in {"WP", "DIV"} THEN Walk(Tail(toks), d + 1, TRUE)
                           ELSE IF Head(toks) = "END" THEN Walk(Tail(toks), d - 1, TRUE)
                           ELSE Walk(Tail(toks), d, TRUE)
             r == Walk(line, depth, depth > 0)
         IN (IF r[2] THEN <<>> ELSE <<line>>) \o KeptLines(Tail(ls), r[1])

\* C10: the written file holds exactly the lines outside the waypoint-item blocks
\* (opening line through the line of the matching </div>, same-line close included),
\* unchanged and in order.
C10_RemovesExactlyItems == cpc = "done" => html = KeptLines(lines, 0)

(***************************************************************************)
(* validation_tools/flight_time_cal.py: calculate_flight_time              *)
(***************************************************************************)
magnetic_variation == FromInt(0)

true_air_speed == FromInt(120)

\* <<wind_dir, wind_speed, mag_course, distance_nm>>, degrees and miles in hundredths;
\* <<18000, 90, 8600, 3720>> are the values written in the script
FlightInputs ==
    ({18000, 8600, 1435} \X {0, 60, 90, 120, 130} \X {8600, 1435} \X {3720, 3100})
        \cup { <<17600, 130, 8600, 3720>>, <<17600, 60, 8600, 3720>>,
               <<17600, 90, 8600, 3100>> }

InvalidInputMsg == "Invalid input: wind speed too high relative to TAS."

GsFailedMsg == "Ground speed calculation failed due to angle conditions."

GsLowMsg == "Error: Ground speed too low or negative."

\* math.asin raises ValueError outside [-1, 1]
math_asin_raises(v) == IF AsinDomain(v) THEN "none" ELSE "ValueError"

\* a handler written for the wrong exception type
wca_caught_zero_division(exc) == exc = "ZeroDivisionError"

\* except ValueError:
wca_caught(exc) == exc = "ValueError"

\* a handler written for the wrong exception type
gs_caught_value_error(exc) == exc = "ValueError"

\* except ZeroDivisionError:
gs_caught(exc) == exc = "ZeroDivisionError"

FlightInit ==
    /\ fpc = "start" /\ gs_branch = "none" /\ ft_out = <<>>
    /\ \E i \in FlightInputs :
         /\ wind_dir = Rat(i[1], 100)
         /\ wind_speed = FromInt(i[2])
         /\ mag_course = Rat(i[3], 100)
         /\ distance_nm = Rat(i[4], 100)
    /\ ft_true_course = None /\ wind_dir_rad = None /\ true_course_rad = None
    /\ wca_rad = None /\ ground_speed = None /\ flight_time = None

\* true_course = mag_course - magnetic_variation, and the conversions to radians
Convert ==
    /\ fpc = "start"
    /\ \E tc \in {FSub(mag_course, magnetic_variation)} :
         /\ ft_true_course' = tc
         /\ true_course_rad' = math_radians(tc)
    /\ wind_dir_rad' = math_radians(wind_dir)
    /\ fpc' = "wca"
    /\ UNCHANGED <<wind_dir, wind_speed, mag_course, distance_nm, wca_rad, gs_branch,
                   ground_speed, flight_time, ft_out>>
    /\ UNCHANGED notFlight

\* (wind_speed / true_air_speed) * math.sin(wind_dir_rad - true_course_rad)
AsinArgument ==
    FMul(FDiv(wind_speed, true_air_speed), math_sin(FSub(wind_dir_rad, true_course_rad)))

\* The try block of the wind correction angle: math.asin of the argument, then the
\* three diagnostic prints, the first of which takes math.asin(wind_speed / TAS).
WindCorrection ==
    /\ fpc = "wca"
    /\ \E arg \in {AsinArgument} :
       \E first \in {math_asin_raises(arg)} :
       \E exc \in {IF first # "none" THEN first
                   ELSE math_asin_raises(FDiv(wind_speed, true_air_speed))} :
         IF exc = "none"
         THEN /\ wca_rad' = math_asin(arg)
              /\ ft_out' = Append(ft_out, "diagnostics")
              /\ fpc' = "gs"
         ELSE IF wca_caught(exc)
         THEN /\ ft_out' = Append(ft_out, InvalidInputMsg)
              /\ fpc' = "returned"
              /\ UNCHANGED wca_rad
         ELSE /\ ft_out' = Append(ft_out, "Traceback")
              /\ fpc' = "crashed"
              /\ UNCHANGED wca_rad
    /\ UNCHANGED <<wind_dir, wind_speed, mag_course, distance_nm, ft_true_course,
                   wind_dir_rad, true_course_rad, gs_branch, ground_speed, flight_time>>
    /\ UNCHANGED notFlight

\* round(math.degrees(true_course_rad), 1) == round(wind_dir, 1)
HeadwindTest == round1(math_degrees(true_course_rad)) = round1(wind_dir)

\* wind_speed * math.sin(wind_dir_rad - true_course_rad - wca_rad), the dividend
GeneralDividend ==
    FMul(wind_speed, math_sin(FSub(FSub(wind_dir_rad, true_course_rad), wca_rad)))

GroundSpeed ==
    /\ fpc = "gs"
    /\ IF HeadwindTest
       THEN /\ gs_branch' = "direct"
            /\ ground_speed' = FSub(true_air_speed, wind_speed)
            /\ fpc' = "ft"
            /\ UNCHANGED ft_out
       ELSE /\ gs_branch' = "general"
            /\ \E num \in {GeneralDividend}, den \in {math_sin(wca_rad)} :
                 IF den # Zero
                 THEN /\ ground_speed' = FDiv(num, den)
                      /\ fpc' = "ft"
                      /\ UNCHANGED ft_out
                 ELSE IF gs_caught("ZeroDivisionError")
                 THEN /\ ft_out' = Append(ft_out, GsFailedMsg)
                      /\ fpc' = "returned"
                      /\ UNCHANGED ground_speed
                 ELSE /\ ft_out' = Append(ft_out, "Traceback")
                      /\ fpc' = "crashed"
                      /\ UNCHANGED ground_speed
    /\ UNCHANGED <<wind_dir, wind_speed, mag_course, distance_nm, ft_true_course,
                   wind_dir_rad, true_course_rad, wca_rad, flight_time>>
    /\ UNCHANGED notFlight

\* the ground_speed <= 0 check and math.ceil((distance_nm / ground_speed) * 60)
FlightTime ==
    /\ fpc = "ft"
    /\ IF FSign(ground_speed) <= 0
       THEN /\ ft_out' = Append(ft_out, GsLowMsg)
            /\ fpc' = "returned"
            /\ UNCHANGED flight_time
       ELSE /\ flight_time' = math_ceil(FMul(FDiv(distance_nm, ground_speed), FromInt(60)))
            /\ fpc' = "output"
            /\ UNCHANGED ft_out
    /\ UNCHANGED <<wind_dir, wind_speed, mag_course, distance_nm, ft_true_course,
                   wind_dir_rad, true_course_rad, wca_rad, gs_branch, ground_speed>>
    /\ UNCHANGED notFlight

Output ==
    /\ fpc = "output"
    /\ ft_out' = Append(ft_out, "Results")
    /\ fpc' = "done"
    /\ UNCHANGED <<wind_dir, wind_speed, mag_course, distance_nm, ft_true_course,
                   wind_dir_rad, true_course_rad, wca_rad, gs_branch, ground_speed,
                   flight_time>>
    /\ UNCHANGED notFlight

FlightNext == Convert \/ WindCorrection \/ GroundSpeed \/ FlightTime \/ Output

FlightStart == FlightInit /\ CleanIdle /\ NavIdle /\ InputIdle

SpecFlight == FlightStart /\ [][FlightNext]_vars

\* n is the least integer with n * g >= 60 * d, in exact integer arithmetic
LeastMinutes(n, d, g) ==
    LET e   == IF d[2] < g[2] THEN d[2] ELSE g[2]
        gi  == g[1] * 2^(g[2] - e)
        rhs == 60 * d[1] * 2^(d[2] - e)
    IN n * gi >= rhs /\ (n - 1) * gi < rhs

\* C2: a ground speed <= 0 ends the run with the error message and no flight time;
\* otherwise the flight time is the least integer n with n * ground_speed >= 60 * distance_nm
C2_FlightTimeIsLeastInteger ==
    /\ (fpc \in {"output", "done", "returned"} /\ ground_speed # None
          /\ FSign(ground_speed) <= 0)
         => fpc = "returned" /\ ft_out = <<"diagnostics", GsLowMsg>>
    /\ fpc \in {"output", "done"} => LeastMinutes(flight_time, distance_nm, ground_speed)

WcaStepDone == fpc \notin {"start", "wca"}

\* C3: when the asin argument is outside [-1, 1] the wind-correction step ends in the
\* reported failure: nothing uncaught, the message emitted, no ground speed, flight
\* time or results
C3_AsinDomainFailureReported ==
    WcaStepDone /\ ~AsinDomain(AsinArgument) =>
        /\ fpc = "returned"
        /\ ft_out = <<InvalidInputMsg>>
        /\ wca_rad = None /\ ground_speed = None /\ flight_time = None

C3_Witness ==
    /\ fpc = "returned" /\ ft_out = <<InvalidInputMsg>>
    /\ ~AsinDomain(AsinArgument)
    /\ FLt(true_air_speed, wind_speed)

\* wind_dir and true_course agree after both are rounded to one decimal place
Aligned == round1(wind_dir) = round1(ft_true_course)

\* C4: the ground speed is true_air_speed - wind_speed exactly when wind_dir equals
\* true_course after rounding both to one decimal; otherwise it is the general formula
C4_DirectBranchExactlyWhenAligned ==
    gs_branch # "none" =>
        /\ (gs_branch = "direct") <=> Aligned
        /\ gs_branch = "direct" => ground_speed = FSub(true_air_speed, wind_speed)
        /\ gs_branch = "general" /\ ground_speed # None =>
               ground_speed = FDiv(GeneralDividend, math_sin(wca_rad))

GeneralWithZeroSine == gs_branch = "general" /\ math_sin(wca_rad) = Zero

\* C5: in the general branch a zero sin(wca) ends in the reported failure: nothing
\* uncaught, no ground speed, flight time or results
C5_ZeroDivisionFailureReported ==
    GeneralWithZeroSine =>
        /\ fpc = "returned"
        /\ ft_out = <<"diagnostics", GsFailedMsg>>
        /\ ground_speed = None /\ flight_time = None

C5_Witness ==
    /\ GeneralWithZeroSine /\ fpc = "returned"
    /\ wind_speed = Zero /\ wind_dir # ft_true_course
    /\ ft_out = <<"diagnostics", GsFailedMsg>>

(***************************************************************************)
(* magn_dgr_cal.py: get_coordinate_input.  What the user types is a string *)
(* over Alphabet, a sequence of characters of length at most MaxLen.       *)
(***************************************************************************)
MaxLen == 3

MaxPrompts == 2    \* rejected inputs after which the user stops trying

Alphabet == {"0", "1", "8", ".", "-", "n", "a", " "}

Typed == UNION { [1..n -> Alphabet] : n \in 0..MaxLen }

RECURSIVE LStrip(_)
LStrip(s) == IF s # <<>> /\ Head(s) = " " THEN LStrip(Tail(s)) ELSE s

RECURSIVE RStrip(_)
RStrip(s) ==
    IF s # <<>> /\ s[Len(s)] = " " THEN RStrip(SubSeq(s, 1, Len(s) - 1)) ELSE s

\* str.strip()
strip(s) == RStrip(LStrip(s))

IsDigit(c) == c \in {"0", "1", "8"}

DigitValue(c) == IF c = "0" THEN 0 ELSE IF c = "1" THEN 1 ELSE 8

Unsigned(s) == IF s # <<>> /\ Head(s) = "-" THEN Tail(s) ELSE s

\* the position of the decimal point, Len(s) + 1 when there is none
PointAt(s) ==
    IF \E i \in 1..Len(s) : s[i] = "."
    THEN CHOOSE i \in 1..Len(s) : s[i] = "." /\ \A j \in 1..(i - 1) : s[j] # "."
    ELSE Len(s) + 1

\* digits with at most one decimal point and at least one digit
IsDecimal(s) ==
    /\ \E i \in 1..Len(s) : IsDigit(s[i])
    /\ \A i \in 1..Len(s) : IsDigit(s[i]) \/ i = PointAt(s)

RECURSIVE DigitsValue(_, _)
\* the digits of s read as one integer, the decimal point skipped
DigitsValue(s, acc) ==
    IF s = <<>> THEN acc
    ELSE IF Head(s) = "." THEN DigitsValue(Tail(s), acc)
    ELSE DigitsValue(Tail(s), 10 * acc + DigitValue(Head(s)))

\* the float that is not a number
NaN == <<0, 2047>>

IsNaN(v) == v = NaN

\* float(coord_str) raises ValueError unless the text is a decimal number or nan,
\* either with an optional sign
float_raises(s) ==
    IF IsDecimal(Unsigned(s)) \/ Unsigned(s) = <<"n", "a", "n">>
    THEN "none" ELSE "ValueError"

\* float(coord_str): the nearest float to the decimal number written
float(s) ==
    LET u == Unsigned(s)
        decimals == IF PointAt(u) > Len(u) THEN 0 ELSE Len(u) - PointAt(u)
        sign == IF u = s THEN 1 ELSE -1
    IN IF u = <<"n", "a", "n">> THEN NaN
       ELSE Rat(sign * DigitsValue(u, 0), 10^decimals)

\* abs(coord_value) > 180; every comparison with nan is False
Exceeds180(v) == ~IsNaN(v) /\ FLt(FromInt(180), FAbs(v))

InvalidCoordinateMsg == "Invalid coordinate. Please enter a value between -180 and 180."

InvalidFormatMsg == "Invalid format. Please enter coordinates in hh.hhhh format"

InputInit == ipc = "prompt" /\ coord_str = <<>> /\ coord_value = None /\ in_out = <<>>

\* one iteration of the while loop: input, strip, float, the range check
ReadCoordinate ==
    /\ ipc = "prompt"
    /\ Len(in_out) < MaxPrompts
    /\ \E typed \in Typed :
       \E str \in {strip(typed)} :
         /\ coord_str' = str
         /\ IF float_raises(str) = "ValueError"
            THEN /\ in_out' = Append(in_out, InvalidFormatMsg)
                 /\ ipc' = "prompt"
                 /\ UNCHANGED coord_value
            ELSE /\ coord_value' = float(str)
                 /\ IF Exceeds180(float(str))
                    THEN /\ in_out' = Append(in_out, InvalidCoordinateMsg)
                         /\ ipc' = "prompt"
                    ELSE /\ ipc' = "returned"
                         /\ UNCHANGED in_out
    /\ UNCHANGED notInput

\* Ctrl-C at the prompt: except KeyboardInterrupt, exit(0)
Interrupt ==
    /\ ipc = "prompt"
    /\ in_out' = Append(in_out, "Goodbye!")
    /\ ipc' = "exited"
    /\ UNCHANGED <<coord_str, coord_value>>
    /\ UNCHANGED notInput

InputNext == ReadCoordinate \/ Interrupt

InputStart == InputInit /\ CleanIdle /\ NavIdle /\ FlightIdle

SpecInput == InputStart /\ [][InputNext]_vars

\* C7: the value returned is a number v with |v| <= 180, the value of the input that
\* ended the loop
C7_ReturnsOnlyValidCoordinate ==
    ipc = "returned" =>
        /\ coord_value = float(coord_str)
        /\ ~IsNaN(coord_value)
        /\ FLe(FAbs(coord_value), FromInt(180))

====
